---- MODULE Spec2Model ----
(***************************************************************************)
(* Model of src/push-manifest.ts: the HTTP/2 push manifest generator of    *)
(* polymer-build (AddPushManifest and its helpers).                        *)
(*                                                                         *)
(* Strings are sequences of tokens: "/" and "." stand for themselves, any  *)
(* other token is a non-empty run of characters holding neither "/" nor    *)
(* ".".  JavaScript objects are insertion-ordered sequences of             *)
(* [key, val] pairs (no URL of the model is an integer-like key).          *)
(***************************************************************************)
EXTENDS Integers, Sequences, FiniteSets, TLC

VARIABLES
    config,        \* ProjectConfig + constructor arguments (read-only)
    files,         \* this.files: Map<url, File>
    arrived,       \* files delivered by the upstream iterable so far
    inputDone,     \* the upstream iterable has reported done
    out,           \* files yielded by _transformIter so far
    pc,            \* position in _transformIter / generatePushManifest
    calls,         \* URLs handed to analyzer.analyze so far
    pushManifest,  \* the raw manifest being assembled
    ignoreUrls,    \* fragmentIgnoreUrls
    fragIdx,       \* index of the fragment being resolved
    returned,      \* value generatePushManifest resolved with
    error,         \* Error generatePushManifest rejected with
    arg,           \* function-level checks: the input
    ret            \* function-level checks: the results so far

vars == <<config, files, arrived, inputDone, out, pc, calls, pushManifest,
          ignoreUrls, fragIdx, returned, error, arg, ret>>

pipeVars == <<config, files, arrived, inputDone, out, pc, calls, pushManifest,
              ignoreUrls, fragIdx, returned, error>>

-----------------------------------------------------------------------------
(* Bounds *)

MaxFiles == 3
MaxFragments == 2
MaxImports == 3

-----------------------------------------------------------------------------
(* Strings *)

Last(s) == s[Len(s)]

Front(s) == SubSeq(s, 1, Len(s) - 1)

RECURSIVE SplitSegs(_)
\* String.prototype.split('/'): the segments between separators.
SplitSegs(s) ==
    IF s = <<>> THEN << <<>> >>
    ELSE LET r == SplitSegs(Tail(s)) IN
         IF Head(s) = "/" THEN << <<>> >> \o r
         ELSE << <<Head(s)>> \o r[1] >> \o Tail(r)

RECURSIVE JoinSegs(_)
JoinSegs(segs) ==
    IF segs = <<>> THEN <<>>
    ELSE IF Len(segs) = 1 THEN segs[1]
    ELSE segs[1] \o <<"/">> \o JoinSegs(Tail(segs))

DotDot == <<".", ".">>

RECURSIVE NormalizeSegs(_, _, _)
NormalizeSegs(segs, res, allowAboveRoot) ==
    IF segs = <<>> THEN res
    ELSE LET seg == Head(segs)
             nxt == IF seg = <<>> \/ seg = <<".">> THEN res
                    ELSE IF seg = DotDot
                         THEN IF res # <<>> /\ Last(res) # DotDot
                              THEN Front(res)
                              ELSE IF allowAboveRoot THEN Append(res, seg)
                                   ELSE res
                         ELSE Append(res, seg)
         IN  NormalizeSegs(Tail(segs), nxt, allowAboveRoot)

\* path.posix normalizeString: resolves "." and ".." segments and drops
\* empty segments.
NormalizeString(path, allowAboveRoot) ==
    JoinSegs(NormalizeSegs(SplitSegs(path), <<>>, allowAboveRoot))

\* path.posix.normalize
PosixNormalize(path) ==
    IF path = <<>> THEN <<".">>
    ELSE LET isAbsolute == Head(path) = "/"
             trailingSeparator == Last(path) = "/"
             p == NormalizeString(path, ~isAbsolute)
         IN  IF p = <<>>
             THEN IF isAbsolute THEN <<"/">>
                  ELSE IF trailingSeparator THEN <<".", "/">> ELSE <<".">>
             ELSE LET q == IF trailingSeparator THEN p \o <<"/">> ELSE p
                  IN  IF isAbsolute THEN <<"/">> \o q ELSE q

\* path.posix.join(a, b)
PosixJoin(a, b) ==
    IF a = <<>> /\ b = <<>> THEN <<".">>
    ELSE IF a = <<>> THEN PosixNormalize(b)
    ELSE IF b = <<>> THEN PosixNormalize(a)
    ELSE PosixNormalize(a \o <<"/">> \o b)

RECURSIVE StripLeadingSlashes(_)
\* String.prototype.replace(/^\/+/, '')
StripLeadingSlashes(s) ==
    IF s # <<>> /\ Head(s) = "/" THEN StripLeadingSlashes(Tail(s)) ELSE s

RECURSIVE TrimTrailingSlashes(_)
TrimTrailingSlashes(s) ==
    IF s # <<>> /\ Last(s) = "/" THEN TrimTrailingSlashes(Front(s)) ELSE s

\* path.extname: from the last "." of the last path segment to its end;
\* empty when there is none, when it opens the segment, or for "..".
extname(url) ==
    LET t    == TrimTrailingSlashes(url)
        base == Last(SplitSegs(t))
        dots == {i \in 1..Len(base) : base[i] = "."}
    IN  IF dots = {} THEN <<>>
        ELSE LET startDot == CHOOSE i \in dots : \A j \in dots : j <= i
             IN  IF startDot = 1 \/ base = DotDot THEN <<>>
                 ELSE SubSeq(base, startDot, Len(base))

IsPrefix(p, s) == Len(p) <= Len(s) /\ SubSeq(s, 1, Len(p)) = p

-----------------------------------------------------------------------------
(* Objects as insertion-ordered key/value sequences *)

ObjKeys(o) == [i \in 1..Len(o) |-> o[i].key]

ObjHas(o, k) == \E i \in 1..Len(o) : o[i].key = k

ObjGet(o, k) == o[CHOOSE i \in 1..Len(o) : o[i].key = k].val

\* o[k] = v: an existing key keeps its position.
ObjSet(o, k, v) ==
    IF ObjHas(o, k)
    THEN [i \in 1..Len(o) |-> IF o[i].key = k THEN [key |-> k, val |-> v] ELSE o[i]]
    ELSE Append(o, [key |-> k, val |-> v])

KeySet(o) == {o[i].key : i \in 1..Len(o)}

NoDupKeys(o) == \A i, j \in 1..Len(o) : o[i].key = o[j].key => i = j

-----------------------------------------------------------------------------
(* Resource-type classification *)

Undefined == "undefined"

ResourceType == {"document", "script", "style", "image", "font"}

extensionToTypeMapping ==
    { << <<".", "css">>,   "style" >>,
      << <<".", "gif">>,   "image" >>,
      << <<".", "html">>,  "document" >>,
      << <<".", "png">>,   "image" >>,
      << <<".", "jpg">>,   "image" >>,
      << <<".", "js">>,    "script" >>,
      << <<".", "json">>,  "script" >>,
      << <<".", "svg">>,   "image" >>,
      << <<".", "webp">>,  "image" >>,
      << <<".", "woff">>,  "font" >>,
      << <<".", "woff2">>, "font" >> }

\* A plausible slip: the extension taken from the first "." of the URL.
getResourceTypeFromUrl_firstDot(url) ==
    LET dots == {i \in 1..Len(url) : url[i] = "."}
        ext  == IF dots = {} THEN <<>>
                ELSE SubSeq(url, CHOOSE i \in dots : \A j \in dots : i <= j, Len(url))
        hit  == {m \in extensionToTypeMapping : m[1] = ext}
    IN  IF hit = {} THEN Undefined ELSE (CHOOSE m \in hit : TRUE)[2]

getResourceTypeFromUrl(url) ==
    LET ext == extname(url)
        hit == {m \in extensionToTypeMapping : m[1] = ext}
    IN  IF hit = {} THEN Undefined ELSE (CHOOSE m \in hit : TRUE)[2]

\* A plausible slip: the html-import test made before the style test.
getResourceTypeFromImport_importFirst(importFeature) ==
    LET importKinds == importFeature.kinds IN
    IF "html-import" \in importKinds THEN "document"
    ELSE IF "css-import" \in importKinds \/ "html-style" \in importKinds THEN "style"
    ELSE IF "html-script" \in importKinds THEN "script"
    ELSE getResourceTypeFromUrl(importFeature.url)

\* A plausible slip: html-import left to the extension table.
getResourceTypeFromImport_noImport(importFeature) ==
    LET importKinds == importFeature.kinds IN
    IF "css-import" \in importKinds \/ "html-style" \in importKinds THEN "style"
    ELSE IF "html-script" \in importKinds THEN "script"
    ELSE getResourceTypeFromUrl(importFeature.url)

getResourceTypeFromImport(importFeature) ==
    LET importKinds == importFeature.kinds IN
    IF "css-import" \in importKinds \/ "html-style" \in importKinds THEN "style"
    ELSE IF "html-import" \in importKinds THEN "document"
    ELSE IF "html-script" \in importKinds THEN "script"
    ELSE getResourceTypeFromUrl(importFeature.url)

\* A plausible slip: a computed weight instead of the only supported one.
createPushEntryFromImport_weight2(importFeature) ==
    [type |-> getResourceTypeFromImport(importFeature), weight |-> 2]

createPushEntryFromImport(importFeature) ==
    [type |-> getResourceTypeFromImport(importFeature), weight |-> 1]

-----------------------------------------------------------------------------
(* Analyzer and path boundaries *)

Imp(url, kinds) == [url |-> url, kinds |-> kinds]

\* What analysis.getDocument(url) yields for a file: a Document with the
\* import features getFeatures() lists, or a Warning with a message.
Doc(imports) == [isDocument |-> TRUE, message |-> Undefined, imports |-> imports]

Warning(message) == [isDocument |-> FALSE, message |-> message, imports |-> <<>>]

\* analyzer.analyze([url]) followed by analysis.getDocument(url), the
\* analyzer loading through FileMapUrlLoader(this.files).
AnalyzerGetDocument(fileMap, url) ==
    IF url \in DOMAIN fileMap THEN fileMap[url].contents
    ELSE Warning("could-not-load")

\* urlFromPath(root, path): the path below root as a URL.
urlFromPath(root, filepath) ==
    IF IsPrefix(root \o <<"/">>, filepath)
    THEN SubSeq(filepath, Len(root) + 2, Len(filepath))
    ELSE filepath

-----------------------------------------------------------------------------
(* Entry resolution *)

NoIgnore == [defined |-> FALSE, list |-> <<>>]

IgnoreList(list) == [defined |-> TRUE, list |-> list]

shouldIgnoreFile(ignore, url) ==
    ignore.defined /\ \E i \in 1..Len(ignore.list) : ignore.list[i] = url

RECURSIVE AddImports_lastWins(_, _, _)
\* A plausible slip: the "already present" test dropped.
AddImports_lastWins(analyzedImports, ignore, pushManifestEntries) ==
    IF analyzedImports = <<>> THEN pushManifestEntries
    ELSE LET analyzedImport == Head(analyzedImports)
             analyzedImportUrl == analyzedImport.url
         IN  AddImports_lastWins(Tail(analyzedImports), ignore,
                 IF ~shouldIgnoreFile(ignore, analyzedImportUrl)
                 THEN ObjSet(pushManifestEntries, analyzedImportUrl,
                             createPushEntryFromImport(analyzedImport))
                 ELSE pushManifestEntries)

RECURSIVE AddImports(_, _, _)
\* The loop over analyzedImports.
AddImports(analyzedImports, ignore, pushManifestEntries) ==
    IF analyzedImports = <<>> THEN pushManifestEntries
    ELSE LET analyzedImport == Head(analyzedImports)
             analyzedImportUrl == analyzedImport.url
         IN  AddImports(Tail(analyzedImports), ignore,
                 IF ~shouldIgnoreFile(ignore, analyzedImportUrl)
                    /\ ~ObjHas(pushManifestEntries, analyzedImportUrl)
                 THEN ObjSet(pushManifestEntries, analyzedImportUrl,
                             createPushEntryFromImport(analyzedImport))
                 ELSE pushManifestEntries)

Resolved(entries) == [threw |-> FALSE, url |-> <<>>, message |-> "", entries |-> entries]

Thrown(url, message) == [threw |-> TRUE, url |-> url, message |-> message, entries |-> <<>>]

\* A plausible slip: a missing document treated as a document without imports.
generatePushManifestEntryForUrl_swallow(fileMap, url, ignore) ==
    LET analyzedDocument == AnalyzerGetDocument(fileMap, url) IN
    Resolved(AddImports(analyzedDocument.imports, ignore, <<>>))

generatePushManifestEntryForUrl(fileMap, url, ignore) ==
    LET analyzedDocument == AnalyzerGetDocument(fileMap, url) IN
    IF ~analyzedDocument.isDocument
    THEN Thrown(url, IF analyzedDocument.message # Undefined
                     THEN analyzedDocument.message ELSE "unknown")
    ELSE Resolved(AddImports(analyzedDocument.imports, ignore, <<>>))

-----------------------------------------------------------------------------
(* URL normalization *)

\* A plausible slip: the leading slashes left in place.
normalize_joinOnly(basePath, p) == PosixJoin(basePath, p)

\* A plausible slip: string concatenation and a one-slash strip instead of
\* path.posix.join and /^\/+/.
normalize_stripOne(basePath, p) ==
    LET joined == IF basePath = <<>> THEN p ELSE basePath \o <<"/">> \o p
    IN  IF joined # <<>> /\ Head(joined) = "/" THEN Tail(joined) ELSE joined

normalize(basePath, p) == StripLeadingSlashes(PosixJoin(basePath, p))

RECURSIVE NormalizeTargets(_, _, _)
NormalizeTargets(basePath, collection, targets) ==
    IF collection = <<>> THEN targets
    ELSE NormalizeTargets(basePath, Tail(collection),
             ObjSet(targets, normalize(basePath, Head(collection).key),
                    Head(collection).val))

RECURSIVE NormalizeSources_rawTargets(_, _, _)
\* A plausible slip: the raw collection stored under the normalized source.
NormalizeSources_rawTargets(basePath, manifest, normalized) ==
    IF manifest = <<>> THEN normalized
    ELSE NormalizeSources_rawTargets(basePath, Tail(manifest),
             ObjSet(normalized, normalize(basePath, Head(manifest).key),
                    Head(manifest).val))

RECURSIVE NormalizeSources(_, _, _)
NormalizeSources(basePath, manifest, normalized) ==
    IF manifest = <<>> THEN normalized
    ELSE NormalizeSources(basePath, Tail(manifest),
             ObjSet(normalized, normalize(basePath, Head(manifest).key),
                    NormalizeTargets(basePath, Head(manifest).val, <<>>)))

\* The closing loops of generatePushManifest.
NormalizeManifest(basePath, manifest) == NormalizeSources(basePath, manifest, <<>>)

-----------------------------------------------------------------------------
(* Project configurations and input files *)

Root == <<"/", "app">>

Under(rel) == Root \o <<"/">> \o rel

IndexHtml == <<"index", ".", "html">>
ShellHtml == <<"shell", ".", "html">>
Frag1Html == <<"frag1", ".", "html">>
Frag2Html == <<"frag2", ".", "html">>

AJs       == <<"a", ".", "js">>
SlashAJs  == <<"/", "a", ".", "js">>
BHtml     == <<"b", ".", "html">>
AppCss    == <<"css", "/", "app", ".", "css">>
AppJs     == <<"js", "/", "app", ".", "js">>
XDat      == <<"x", ".", "dat">>

FragmentPool == {Under(Frag1Html), Under(Frag2Html), Under(ShellHtml)}

RECURSIVE SeqsUpTo(_, _)
SeqsUpTo(S, n) ==
    IF n = 0 THEN {<<>>}
    ELSE LET shorter == SeqsUpTo(S, n - 1)
         IN  shorter \cup {Append(q, x) : q \in shorter, x \in S}

\* config.shell and basePath are empty (falsy) when not given.
ConfigPool ==
    [root       : {Root},
     entrypoint : {Under(IndexHtml)},
     shell      : {<<>>, Under(ShellHtml)},
     fragments  : SeqsUpTo(FragmentPool, MaxFragments),
     outPath    : {<<>>},
     basePath   : {<<>>, <<"base">>}]

FilePool ==
    { [path |-> Under(IndexHtml),
       contents |-> Doc(<<Imp(AppCss, {"import", "css-import"}),
                          Imp(AppJs, {"import", "html-script"})>>)],
      [path |-> Under(ShellHtml),
       contents |-> Doc(<<Imp(SlashAJs, {"import", "html-script"}),
                          Imp(BHtml, {"import", "html-import"}),
                          Imp(SlashAJs, {"import", "js-import"})>>)],
      [path |-> Under(Frag1Html),
       contents |-> Doc(<<Imp(SlashAJs, {"import", "html-script"}),
                          Imp(ShellHtml, {"import", "html-import"}),
                          Imp(XDat, {"import", "js-import"}),
                          Imp(AJs, {"import", "html-script"})>>)],
      [path |-> Under(Frag2Html),
       contents |-> Doc(<<Imp(BHtml, {"import", "html-import"}),
                          Imp(SlashAJs, {"import", "html-script"})>>)],
      [path |-> Under(Frag2Html),
       contents |-> Warning(Undefined)] }

-----------------------------------------------------------------------------
(* AddPushManifest *)

\* this.outPath, set by the constructor.
outPathOf(cfg) ==
    PosixJoin(cfg.root, IF cfg.outPath # <<>> THEN cfg.outPath
                        ELSE <<"push-manifest", ".", "json">>)

\* this.basePath, set by the constructor.
basePathOf(cfg) == IF cfg.basePath # <<>> THEN cfg.basePath ELSE <<>>

mainPushEntrypoint(cfg) == IF cfg.shell # <<>> THEN cfg.shell ELSE cfg.entrypoint

absoluteShellUrl(cfg) == urlFromPath(cfg.root, mainPushEntrypoint(cfg))

absoluteFragmentUrl(cfg, i) == urlFromPath(cfg.root, cfg.fragments[i])

\* JSON.stringify drops a property whose value is undefined.
StringifyEntry(entry) ==
    IF entry.type = Undefined THEN [weight |-> entry.weight]
    ELSE [type |-> entry.type, weight |-> entry.weight]

StringifyCollection(collection) ==
    [i \in 1..Len(collection) |->
        [key |-> collection[i].key, val |-> StringifyEntry(collection[i].val)]]

JSONStringify(manifest) ==
    [i \in 1..Len(manifest) |->
        [key |-> manifest[i].key, val |-> StringifyCollection(manifest[i].val)]]

ManifestFile(cfg, manifest) ==
    [path |-> outPathOf(cfg), contents |-> [json |-> JSONStringify(manifest)]]

Init ==
    /\ config \in ConfigPool
    /\ files = <<>>
    /\ arrived = <<>>
    /\ inputDone = FALSE
    /\ out = <<>>
    /\ pc = "reading"
    /\ calls = <<>>
    /\ pushManifest = <<>>
    /\ ignoreUrls = NoIgnore
    /\ fragIdx = 0
    /\ returned = <<>>
    /\ error = <<>>
    /\ arg = <<>>
    /\ ret = <<>>

\* A plausible slip: the manifest generation started from inside the loop.
Arrive_generateEarly ==
    /\ pc = "reading"
    /\ Len(arrived) < MaxFiles
    /\ \E file \in FilePool :
        LET url == urlFromPath(config.root, file.path) IN
        /\ arrived' = Append(arrived, file)
        /\ files' = [u \in (DOMAIN files) \cup {url} |->
                        IF u = url THEN file ELSE files[u]]
        /\ out' = Append(out, file)
    /\ calls' = Append(calls, absoluteShellUrl(config))
    /\ UNCHANGED <<config, inputDone, pc, pushManifest, ignoreUrls,
                   fragIdx, returned, error, arg, ret>>

\* A plausible slip: the file kept for the analyzer but not yielded.
Arrive_noYield ==
    /\ pc = "reading"
    /\ Len(arrived) < MaxFiles
    /\ \E file \in FilePool :
        LET url == urlFromPath(config.root, file.path) IN
        /\ arrived' = Append(arrived, file)
        /\ files' = [u \in (DOMAIN files) \cup {url} |->
                        IF u = url THEN file ELSE files[u]]
    /\ UNCHANGED <<config, inputDone, out, pc, calls, pushManifest, ignoreUrls,
                   fragIdx, returned, error, arg, ret>>

\* One turn of the for-await loop of _transformIter.
Arrive ==
    /\ pc = "reading"
    /\ Len(arrived) < MaxFiles
    /\ \E file \in FilePool :
        LET url == urlFromPath(config.root, file.path) IN
        /\ arrived' = Append(arrived, file)
        /\ files' = [u \in (DOMAIN files) \cup {url} |->
                        IF u = url THEN file ELSE files[u]]
        /\ out' = Append(out, file)
    /\ UNCHANGED <<config, inputDone, pc, calls, pushManifest, ignoreUrls,
                   fragIdx, returned, error, arg, ret>>

\* The loop ends; generatePushManifest runs up to its first await.
EndOfInput ==
    /\ pc = "reading"
    /\ inputDone' = TRUE
    /\ pushManifest' = <<>>
    /\ calls' = Append(calls, absoluteShellUrl(config))
    /\ pc' = "awaitShell"
    /\ UNCHANGED <<config, files, arrived, out, ignoreUrls, fragIdx, returned,
                   error, arg, ret>>

\* A plausible slip: the output buffered so far dropped with the failure.
Reject_discardOutput(r) ==
    /\ error' = << [url |-> r.url, message |-> r.message] >>
    /\ pc' = "failed"
    /\ out' = <<>>
    /\ UNCHANGED <<pushManifest, ignoreUrls, fragIdx, returned, calls>>

\* generatePushManifest rejects; _transformIter throws.
Reject(r) ==
    /\ error' = << [url |-> r.url, message |-> r.message] >>
    /\ pc' = "failed"
    /\ UNCHANGED <<pushManifest, ignoreUrls, fragIdx, returned, out, calls>>

\* A plausible slip: the analyses of all fragments started together.
Continue_allAtOnce(manifest, ignore, next) ==
    /\ pushManifest' = manifest
    /\ ignoreUrls' = ignore
    /\ error' = error
    /\ IF next <= Len(config.fragments)
       THEN /\ fragIdx' = next
            /\ calls' = IF next = 1
                        THEN calls \o [i \in 1..Len(config.fragments) |->
                                          absoluteFragmentUrl(config, i)]
                        ELSE calls
            /\ pc' = "awaitFragment"
            /\ UNCHANGED <<returned, out>>
       ELSE LET normalized == NormalizeManifest(basePathOf(config), manifest) IN
            /\ returned' = <<normalized>>
            /\ out' = Append(out, ManifestFile(config, normalized))
            /\ pc' = "done"
            /\ UNCHANGED <<fragIdx, calls>>

\* After an entry is stored: the next fragment's analyzer call, or, past the
\* last fragment, normalization, the return and the yield of the manifest file.
Continue(manifest, ignore, next) ==
    /\ pushManifest' = manifest
    /\ ignoreUrls' = ignore
    /\ error' = error
    /\ IF next <= Len(config.fragments)
       THEN /\ fragIdx' = next
            /\ calls' = Append(calls, absoluteFragmentUrl(config, next))
            /\ pc' = "awaitFragment"
            /\ UNCHANGED <<returned, out>>
       ELSE LET normalized == NormalizeManifest(basePathOf(config), manifest) IN
            /\ returned' = <<normalized>>
            /\ out' = Append(out, ManifestFile(config, normalized))
            /\ pc' = "done"
            /\ UNCHANGED <<fragIdx, calls>>

\* A plausible slip: the ignore list made of the shell's imports alone.
ShellReturn_noShellInIgnore ==
    /\ pc = "awaitShell"
    /\ LET url == absoluteShellUrl(config)
           r   == generatePushManifestEntryForUrl(files, url, NoIgnore)
       IN  IF r.threw THEN Reject(r)
           ELSE Continue(ObjSet(pushManifest, url, r.entries),
                         IgnoreList(ObjKeys(r.entries)), 1)
    /\ UNCHANGED <<config, files, arrived, inputDone, arg, ret>>

\* The shell's (main entry's) analysis completes.
ShellReturn ==
    /\ pc = "awaitShell"
    /\ LET url == absoluteShellUrl(config)
           r   == generatePushManifestEntryForUrl(files, url, NoIgnore)
       IN  IF r.threw THEN Reject(r)
           ELSE Continue(ObjSet(pushManifest, url, r.entries),
                         IgnoreList(<<url>> \o ObjKeys(r.entries)), 1)
    /\ UNCHANGED <<config, files, arrived, inputDone, arg, ret>>

\* A plausible slip: each fragment's imports added to the ignore list of the
\* fragments after it.
FragmentReturn_accumulate ==
    /\ pc = "awaitFragment"
    /\ LET url == absoluteFragmentUrl(config, fragIdx)
           r   == generatePushManifestEntryForUrl(files, url, ignoreUrls)
       IN  IF r.threw THEN Reject(r)
           ELSE Continue(ObjSet(pushManifest, url, r.entries),
                         IgnoreList(ignoreUrls.list \o ObjKeys(r.entries)),
                         fragIdx + 1)
    /\ UNCHANGED <<config, files, arrived, inputDone, arg, ret>>

\* A plausible slip: an analyzed file released from the file map.
FragmentReturn_dropAnalyzed ==
    /\ pc = "awaitFragment"
    /\ LET url == absoluteFragmentUrl(config, fragIdx)
           r   == generatePushManifestEntryForUrl(files, url, ignoreUrls)
       IN  /\ IF r.threw THEN Reject(r)
              ELSE Continue(ObjSet(pushManifest, url, r.entries), ignoreUrls,
                            fragIdx + 1)
           /\ files' = [u \in (DOMAIN files) \ {url} |-> files[u]]
    /\ UNCHANGED <<config, arrived, inputDone, arg, ret>>

\* A fragment's analysis completes.
FragmentReturn ==
    /\ pc = "awaitFragment"
    /\ LET url == absoluteFragmentUrl(config, fragIdx)
           r   == generatePushManifestEntryForUrl(files, url, ignoreUrls)
       IN  IF r.threw THEN Reject(r)
           ELSE Continue(ObjSet(pushManifest, url, r.entries), ignoreUrls,
                         fragIdx + 1)
    /\ UNCHANGED <<config, files, arrived, inputDone, arg, ret>>

Next == Arrive \/ EndOfInput \/ ShellReturn \/ FragmentReturn

Spec == Init /\ [][Next]_vars

-----------------------------------------------------------------------------
(* Function-level specifications: the helpers applied to inputs of their own *)

IdlePipeline ==
    /\ config = [root |-> Root, entrypoint |-> Under(IndexHtml), shell |-> <<>>,
                 fragments |-> <<>>, outPath |-> <<>>, basePath |-> <<>>]
    /\ files = <<>>
    /\ arrived = <<>>
    /\ inputDone = FALSE
    /\ out = <<>>
    /\ pc = "idle"
    /\ calls = <<>>
    /\ pushManifest = <<>>
    /\ ignoreUrls = NoIgnore
    /\ fragIdx = 0
    /\ returned = <<>>
    /\ error = <<>>

UrlPool ==
    { AJs, SlashAJs, <<".", "/", "a", ".", "js">>,
      <<".", ".", "/", "x", ".", "html">>,
      <<"/", "/", "cdn", "/", "x", ".", "js">>,
      <<"d", "/", "c", ".", "css">>,
      <<"d", "/">>, <<"/">>, <<"f", ".", "woff2">>, XDat }

KindPool == {"css-import", "html-style", "html-import", "html-script", "js-import"}

ImportPool == {Imp(u, k) : u \in UrlPool, k \in SUBSET KindPool}

InitClassify == IdlePipeline /\ arg \in ImportPool /\ ret = <<>>

\* getResourceTypeFromImport(arg)
Classify ==
    /\ ret = <<>>
    /\ ret' = <<getResourceTypeFromImport(arg)>>
    /\ UNCHANGED <<pipeVars, arg>>

NextClassify == Classify

SpecClassify == InitClassify /\ [][NextClassify]_vars

EdgePool ==
    { Imp(AJs, {"import", "html-script"}), Imp(AJs, {"import", "css-import"}),
      Imp(SlashAJs, {"import", "js-import"}), Imp(BHtml, {"import", "html-import"}),
      Imp(XDat, {"import", "js-import"}) }

IgnorePool == {NoIgnore, IgnoreList(<<AJs>>), IgnoreList(<<IndexHtml, BHtml, XDat>>)}

InitResolve ==
    /\ IdlePipeline
    /\ arg \in [imports : SeqsUpTo(EdgePool, MaxImports), ignore : IgnorePool]
    /\ ret = <<>>

\* generatePushManifestEntryForUrl on a document whose imports are arg.imports
ResolveEntry ==
    /\ ret = <<>>
    /\ LET fileMap == [u \in {IndexHtml} |->
                          [path |-> Under(IndexHtml), contents |-> Doc(arg.imports)]]
       IN  ret' = <<generatePushManifestEntryForUrl(fileMap, IndexHtml, arg.ignore)>>
    /\ UNCHANGED <<pipeVars, arg>>

NextResolve == ResolveEntry

SpecResolve == InitResolve /\ [][NextResolve]_vars

MaxTargets == 2

BasePool ==
    { <<>>, <<"base">>, <<"/", "base">>, <<"base", "/">>, <<".">>, <<"base", "/", ".", ".">> }

DistinctSeqs(S, n) ==
    {q \in SeqsUpTo(S, n) : \A i, j \in 1..Len(q) : q[i] = q[j] => i = j}

\* A raw collection: its entries as createPushEntryFromImport makes them.
RawCollection(urls) ==
    [i \in 1..Len(urls) |->
        [key |-> urls[i], val |-> createPushEntryFromImport(Imp(urls[i], {"import"}))]]

\* Raw manifests of one entry, and of two entries with one dependency each.
RawManifestPool ==
    { << [key |-> source, val |-> RawCollection(targets)] >> :
        source \in UrlPool, targets \in DistinctSeqs(UrlPool, MaxTargets) }
    \cup
    { << [key |-> sources[1], val |-> RawCollection(<<t1>>)],
         [key |-> sources[2], val |-> RawCollection(<<t2>>)] >> :
        sources \in {q \in DistinctSeqs(UrlPool, 2) : Len(q) = 2},
        t1 \in {AJs, XDat}, t2 \in {AJs, XDat} }

InitNormalize ==
    /\ IdlePipeline
    /\ arg \in [basePath : BasePool, manifest : RawManifestPool]
    /\ ret = <<>>

\* The normalization of generatePushManifest, applied to arg.manifest and
\* then to its own result.
NormalizeStep ==
    /\ Len(ret) < 2
    /\ ret' = Append(ret, NormalizeManifest(arg.basePath,
                              IF ret = <<>> THEN arg.manifest ELSE Last(ret)))
    /\ UNCHANGED <<pipeVars, arg>>

NextNormalize == NormalizeStep

SpecNormalize == InitNormalize /\ [][NextNormalize]_vars

\* URLs as a stem followed by a suffix: an extension or nothing.
StemPool ==
    { <<"a">>, <<"/", "a">>, <<"d", "/", "a">>, <<"v1", ".", "2", "/", "a">>,
      <<"a", ".", "min">>, <<".", ".", "/", "a">> }

SuffixPool ==
    { <<>>, <<".", "css">>, <<".", "gif">>, <<".", "html">>, <<".", "png">>,
      <<".", "jpg">>, <<".", "js">>, <<".", "json">>, <<".", "svg">>,
      <<".", "webp">>, <<".", "woff">>, <<".", "woff2">>,
      <<".", "CSS">>, <<".", "htm">>, <<".", "jpeg">>, <<".", "dat">>, <<".">> }

\* Names that open with their only ".": path.extname finds no extension.
DotFilePool == { <<".", "css">>, <<"d", "/", ".", "js">>, <<".", ".">> }

ExtUrlPool == {stem \o suffix : stem \in StemPool, suffix \in SuffixPool} \cup DotFilePool

InitClassifyUrl == IdlePipeline /\ arg \in ExtUrlPool /\ ret = <<>>

\* getResourceTypeFromUrl(arg)
ClassifyUrl ==
    /\ ret = <<>>
    /\ ret' = <<getResourceTypeFromUrl(arg)>>
    /\ UNCHANGED <<pipeVars, arg>>

NextClassifyUrl == ClassifyUrl

SpecClassifyUrl == InitClassifyUrl /\ [][NextClassifyUrl]_vars

\* The entrypoint file with any imports, no shell, no fragments, no base path.
EntryFilePool ==
    { [path |-> Under(IndexHtml), contents |-> Doc(imports)] :
        imports \in SeqsUpTo(EdgePool, MaxImports) }

InitEntrypoint ==
    /\ config = [root |-> Root, entrypoint |-> Under(IndexHtml), shell |-> <<>>,
                 fragments |-> <<>>, outPath |-> <<>>, basePath |-> <<>>]
    /\ files = <<>>
    /\ arrived = <<>>
    /\ inputDone = FALSE
    /\ out = <<>>
    /\ pc = "reading"
    /\ calls = <<>>
    /\ pushManifest = <<>>
    /\ ignoreUrls = NoIgnore
    /\ fragIdx = 0
    /\ returned = <<>>
    /\ error = <<>>
    /\ arg = <<>>
    /\ ret = <<>>

\* One turn of the for-await loop of _transformIter, for the entrypoint file.
ArriveEntry ==
    /\ pc = "reading"
    /\ arrived = <<>>
    /\ \E file \in EntryFilePool :
        LET url == urlFromPath(config.root, file.path) IN
        /\ arrived' = Append(arrived, file)
        /\ files' = [u \in (DOMAIN files) \cup {url} |->
                        IF u = url THEN file ELSE files[u]]
        /\ out' = Append(out, file)
    /\ UNCHANGED <<config, inputDone, pc, calls, pushManifest, ignoreUrls,
                   fragIdx, returned, error, arg, ret>>

NextEntrypoint == ArriveEntry \/ EndOfInput \/ ShellReturn

SpecEntrypoint == InitEntrypoint /\ [][NextEntrypoint]_vars

-----------------------------------------------------------------------------
(* Properties *)

Min(S) == CHOOSE x \in S : \A y \in S : x <= y

\* The entry URLs generatePushManifest resolves, in order.
EntryUrls(cfg) ==
    <<absoluteShellUrl(cfg)>> \o
    [i \in 1..Len(cfg.fragments) |-> absoluteFragmentUrl(cfg, i)]

NormalizedKey(cfg, url) == normalize(basePathOf(cfg), url)

\* C1: in the returned manifest no dependency key of the shell's collection
\* is a dependency key of a configured fragment's collection.
C1_ShellDependencyNotInFragment ==
    pc = "done" =>
        LET manifest == returned[1]
            shellKey == NormalizedKey(config, absoluteShellUrl(config))
        IN  \A i \in 1..Len(config.fragments) :
                LET fragmentKey == NormalizedKey(config, absoluteFragmentUrl(config, i))
                IN  KeySet(ObjGet(manifest, shellKey))
                        \cap KeySet(ObjGet(manifest, fragmentKey)) = {}

Unresolvable(cfg, fileMap) ==
    {i \in 1..Len(EntryUrls(cfg)) :
        ~AnalyzerGetDocument(fileMap, EntryUrls(cfg)[i]).isDocument}

\* C2: when the analyzer has no document for the main entry URL or for a
\* fragment URL, generation rejects at the first such URL with an error
\* naming it, nothing is returned and no manifest file is yielded.
C2_FailureRejectsAndEmitsNothing ==
    (inputDone /\ Unresolvable(config, files) # {}) =>
        LET first == Min(Unresolvable(config, files)) IN
        /\ pc # "done"
        /\ returned = <<>>
        /\ out = arrived
        /\ pc \in {"awaitShell", "awaitFragment"} => Len(calls) <= first
        /\ pc = "failed" =>
              /\ Len(error) = 1
              /\ error[1].url = EntryUrls(config)[first]
              /\ error[1].message \in {"could-not-load", "unknown"}

C2_Witness ==
    /\ pc = "failed"
    /\ pushManifest # <<>>
    /\ error[1].url = urlFromPath(Root, Under(Frag2Html))
    /\ error[1].message = "unknown"
    /\ out = arrived
    /\ Len(arrived) >= 2

AllRegistered ==
    \A i \in 1..Len(arrived) :
        urlFromPath(config.root, arrived[i].path) \in DOMAIN files

\* C3: once an analyzer call has been made, the input has ended, the read
\* loop has been left and every arrived file is in the file map.
C3_NoAnalysisBeforeEndOfInput ==
    calls # <<>> => inputDone /\ pc # "reading" /\ AllRegistered

C3_Witness ==
    /\ calls # <<>>
    /\ Len(arrived) = 3
    /\ arrived[1].path = Under(Frag1Html)
    /\ arrived[3].path = Under(ShellHtml)
    /\ Cardinality(DOMAIN files) = 3

\* C4: until generation succeeds the output is the input so far, unchanged
\* and in arrival order; on success it is the whole input followed by the
\* manifest file alone, which is yielded only after the input has ended.
C4_PassThroughThenOneManifest ==
    /\ pc # "done" => out = arrived
    /\ Len(out) > Len(arrived) => inputDone
    /\ pc = "done" =>
          /\ Len(out) = Len(arrived) + 1
          /\ SubSeq(out, 1, Len(arrived)) = arrived
          /\ Last(out) = [path |-> Root \o <<"/", "push-manifest", ".", "json">>,
                          contents |-> [json |-> JSONStringify(returned[1])]]

C4_Witness ==
    /\ pc = "done"
    /\ Len(arrived) = 3
    /\ arrived[1] # arrived[2]
    /\ Len(out) = 4
    /\ Len(Last(out).contents.json) = 2

\* Every entry key and dependency key of a manifest.
AllKeys(manifest) ==
    KeySet(manifest) \cup
    UNION {KeySet(manifest[i].val) : i \in 1..Len(manifest)}

\* C5 as stated: normalizing a normalized manifest again, with the same base
\* path, gives the same manifest, for any manifest and any base path.
C5_NormalizeIdempotent ==
    Len(ret) = 2 => ret[2] = ret[1]

\* C5 as amended: with an empty base path, normalizing again changes nothing
\* when no key of the normalized manifest is the empty string.
C5_NormalizeIdempotentEmptyBase ==
    (Len(ret) = 2 /\ arg.basePath = <<>> /\ <<>> \notin AllKeys(ret[1]))
        => ret[2] = ret[1]

C5_Witness ==
    /\ Len(ret) = 2
    /\ arg.basePath = <<>>
    /\ <<>> \notin AllKeys(ret[1])
    /\ ret[1] # arg.manifest
    /\ Len(ret[1][1].val) = 2
    /\ ret[2] = ret[1]

HasSegment(s, seg) == \E i \in 1..Len(SplitSegs(s)) : SplitSegs(s)[i] = seg

\* A path of plain segments: none empty, "." or "..".
PlainPath(s) ==
    ~HasSegment(s, <<>>) /\ ~HasSegment(s, <<".">>) /\ ~HasSegment(s, DotDot)

\* C6 as stated: every key of the normalized manifest has no leading "/" and
\* starts with the base path (its leading slashes stripped), for any raw URL
\* and any base path.
C6_KeysRelativeAndBasePrefixed ==
    Len(ret) >= 1 =>
        \A k \in AllKeys(ret[1]) :
            /\ k = <<>> \/ Head(k) # "/"
            /\ IsPrefix(StripLeadingSlashes(arg.basePath), k)

\* C6 as amended: every key of the normalized manifest has no leading "/";
\* it starts with the base path (its leading slashes stripped) when that is
\* empty, or is made of plain segments and no raw URL has a ".." segment.
C6_KeysRelativeAndPlainBasePrefixed ==
    Len(ret) >= 1 =>
        LET base == StripLeadingSlashes(arg.basePath) IN
        \A k \in AllKeys(ret[1]) :
            /\ k = <<>> \/ Head(k) # "/"
            /\ ( \/ base = <<>>
                 \/ /\ PlainPath(base)
                    /\ \A raw \in AllKeys(arg.manifest) : ~HasSegment(raw, DotDot) )
                  => IsPrefix(base, k)

C6_Witness ==
    /\ Len(ret) >= 1
    /\ arg.basePath = <<"/", "base">>
    /\ arg.manifest[1].key = SlashAJs
    /\ KeySet(arg.manifest[1].val) = {<<"/", "/", "cdn", "/", "x", ".", "js">>, <<"d", "/">>}
    /\ ret[1][1].key = <<"base", "/", "a", ".", "js">>

FirstIndex(imports, url) == Min({i \in 1..Len(imports) : imports[i].url = url})

\* C7: a resolved collection has exactly one entry per distinct non-ignored
\* import URL, typed by the first import with that URL.
C7_FirstOccurrenceWins ==
    ret # <<>> =>
        LET collection == ret[1].entries
            imports    == arg.imports
            kept       == {imports[i].url : i \in 1..Len(imports)}
                              \ {u \in UrlPool \cup {BHtml, IndexHtml} :
                                    shouldIgnoreFile(arg.ignore, u)}
        IN  /\ ~ret[1].threw
            /\ NoDupKeys(collection)
            /\ KeySet(collection) = kept
            /\ \A u \in kept :
                  ObjGet(collection, u).type =
                      getResourceTypeFromImport(imports[FirstIndex(imports, u)])

C7_Witness ==
    /\ ret # <<>>
    /\ Len(arg.imports) = 3
    /\ arg.imports[1] = Imp(AJs, {"import", "css-import"})
    /\ arg.imports[2] = Imp(BHtml, {"import", "html-import"})
    /\ arg.imports[3] = Imp(AJs, {"import", "html-script"})
    /\ arg.ignore = IgnoreList(<<IndexHtml, BHtml, XDat>>)
    /\ ret[1].entries = << [key |-> AJs, val |-> [type |-> "style", weight |-> 1]] >>

\* C8 as stated: an import whose kinds contain html-import is classified
\* document, whatever its other kinds and its URL.
C8_HtmlImportIsDocument ==
    (ret # <<>> /\ "html-import" \in arg.kinds) => ret[1] = "document"

\* C8 as amended: an import whose kinds contain html-import and neither
\* css-import nor html-style is classified document, whatever its other
\* kinds and its URL.
C8_HtmlImportIsDocumentUnlessStyle ==
    ( /\ ret # <<>>
      /\ "html-import" \in arg.kinds
      /\ "css-import" \notin arg.kinds
      /\ "html-style" \notin arg.kinds ) => ret[1] = "document"

C8_Witness ==
    /\ ret = <<"document">>
    /\ arg.kinds = {"html-import", "html-script", "js-import"}
    /\ arg.url = AJs

\* C9: classification follows the priority style (css-import or html-style),
\* document (html-import), script (html-script), then the extension table,
\* and always yields a resource type or none.
C9_ClassificationPriority ==
    ret # <<>> =>
        LET kinds == arg.kinds
            style == "css-import" \in kinds \/ "html-style" \in kinds
        IN  /\ ret[1] \in ResourceType \cup {Undefined}
            /\ style => ret[1] = "style"
            /\ (~style /\ "html-import" \in kinds) => ret[1] = "document"
            /\ (~style /\ "html-import" \notin kinds /\ "html-script" \in kinds)
                  => ret[1] = "script"
            /\ (kinds \cap {"css-import", "html-style", "html-import", "html-script"} = {})
                  => ret[1] = getResourceTypeFromUrl(arg.url)

C9_Witness ==
    /\ ret = <<Undefined>>
    /\ arg.kinds = {"js-import"}
    /\ arg.url = XDat

\* C10: every entry of every collection of a returned manifest has weight 1.
C10_WeightAlwaysOne ==
    pc = "done" =>
        \A i \in 1..Len(returned[1]) :
            \A j \in 1..Len(returned[1][i].val) :
                /\ "weight" \in DOMAIN returned[1][i].val[j].val
                /\ returned[1][i].val[j].val.weight = 1

C10_Witness ==
    /\ pc = "done"
    /\ Len(returned[1]) = 2
    /\ Len(returned[1][1].val) = 2
    /\ Len(returned[1][2].val) = 2
    /\ returned[1][2].val[1].val = [type |-> Undefined, weight |-> 1]

\* C11: with no shell, no fragments and an empty base path the returned
\* manifest has one entry, keyed by the normalized entrypoint URL; its
\* collection has one key per normalized import URL, each import's key
\* carrying that import's classification and weight 1.
C11_EntrypointOnlyManifest ==
    (pc = "done" /\ config.shell = <<>> /\ config.fragments = <<>>
                 /\ config.basePath = <<>>) =>
        LET entryUrl == urlFromPath(config.root, config.entrypoint)
            imports  == files[entryUrl].contents.imports
            manifest == returned[1]
        IN  /\ Len(manifest) = 1
            /\ manifest[1].key = normalize(<<>>, entryUrl)
            /\ NoDupKeys(manifest[1].val)
            /\ KeySet(manifest[1].val) =
                  {normalize(<<>>, imports[i].url) : i \in 1..Len(imports)}
            /\ \A i \in 1..Len(imports) :
                  ObjGet(manifest[1].val, normalize(<<>>, imports[i].url)) =
                      [type |-> getResourceTypeFromImport(
                                    imports[FirstIndex(imports, imports[i].url)]),
                       weight |-> 1]

TableType(suffix) ==
    CASE suffix = <<".", "css">> -> "style"
      [] suffix \in { <<".", "gif">>, <<".", "png">>, <<".", "jpg">>,
                      <<".", "svg">>, <<".", "webp">> } -> "image"
      [] suffix = <<".", "html">> -> "document"
      [] suffix \in { <<".", "js">>, <<".", "json">> } -> "script"
      [] suffix \in { <<".", "woff">>, <<".", "woff2">> } -> "font"
      [] OTHER -> Undefined

\* C12: a URL ending in an extension of the table gets the mapped type; a
\* URL with another extension, or with none, gets no type.
C12_ExtensionTable ==
    ret # <<>> =>
        /\ \A stem \in StemPool, suffix \in SuffixPool :
              arg = stem \o suffix => ret[1] = TableType(suffix)
        /\ arg \in DotFilePool => ret[1] = Undefined

C12_Witness ==
    /\ ret = <<"font">>
    /\ arg = <<"v1", ".", "2", "/", "a", ".", "woff2">>

\* The main entry's raw collection, resolved with no ignore list.
ShellCollection(cfg, fileMap) ==
    generatePushManifestEntryForUrl(fileMap, absoluteShellUrl(cfg), NoIgnore).entries

\* C13: the returned manifest's entry for the main push URL is the main
\* document's whole collection, resolved with no ignore list, whatever the
\* fragment list.
C13_MainEntryComplete ==
    pc = "done" =>
        ObjGet(returned[1], NormalizedKey(config, absoluteShellUrl(config))) =
            NormalizeTargets(basePathOf(config), ShellCollection(config, files), <<>>)

\* C14: analyzer calls are made in the order main entry, fragment 1,
\* fragment 2, ...; while one is awaited it is the only one not completed:
\* every earlier one has stored its entry, and the ignore list exists before
\* the first fragment's call.
C14_OneResolutionAtATime ==
    /\ IsPrefix(calls, EntryUrls(config))
    /\ pc = "awaitShell" =>
          /\ Len(calls) = 1
          /\ pushManifest = <<>>
          /\ ~ignoreUrls.defined
    /\ pc = "awaitFragment" =>
          /\ Len(calls) = fragIdx + 1
          /\ ignoreUrls.defined
          /\ \A j \in 1..(Len(calls) - 1) : ObjHas(pushManifest, calls[j])
    /\ Len(calls) >= 2 => ignoreUrls.defined

C14_Witness ==
    /\ pc = "awaitFragment"
    /\ fragIdx = 2
    /\ Len(calls) = 3
    /\ calls[2] # calls[3]
    /\ Len(pushManifest) = 2

CollectionMapping(collection) ==
    [d \in KeySet(collection) |-> ObjGet(collection, d)]

ManifestMapping(manifest) ==
    [k \in KeySet(manifest) |-> CollectionMapping(ObjGet(manifest, k))]

\* The returned mapping as the set of configured fragments determines it.
MappingOfFragmentSet(cfg, fileMap) ==
    LET base      == basePathOf(cfg)
        shellUrl  == absoluteShellUrl(cfg)
        shellRaw  == ShellCollection(cfg, fileMap)
        ignore    == IgnoreList(<<shellUrl>> \o ObjKeys(shellRaw))
        fragments == {urlFromPath(cfg.root, cfg.fragments[i]) :
                         i \in 1..Len(cfg.fragments)}
        keys      == {normalize(base, u) : u \in fragments \cup {shellUrl}}
    IN  [k \in keys |->
            IF \E f \in fragments : normalize(base, f) = k
            THEN LET f == CHOOSE f \in fragments : normalize(base, f) = k
                 IN  CollectionMapping(NormalizeTargets(base,
                         generatePushManifestEntryForUrl(fileMap, f, ignore).entries,
                         <<>>))
            ELSE CollectionMapping(NormalizeTargets(base, shellRaw, <<>>))]

\* C15: when every entry resolves, the returned manifest, as a mapping, is
\* fixed by the set of configured fragments: their order changes no key and
\* no value.
C15_FragmentOrderIrrelevant ==
    pc = "done" => ManifestMapping(returned[1]) = MappingOfFragmentSet(config, files)

C15_Witness ==
    /\ pc = "done"
    /\ config.fragments = <<Under(Frag2Html), Under(Frag1Html)>>
    /\ config.shell = <<>>
    /\ Len(returned[1]) = 3
    /\ Len(returned[1][2].val) = 2
    /\ Len(returned[1][3].val) = 3

\* Fragments whose resolution has completed.
ResolvedFragments ==
    IF pc = "done" THEN Len(config.fragments)
    ELSE IF fragIdx >= 1 THEN fragIdx - 1 ELSE 0

\* C16: the ignore list of every fragment resolution is the main entry's URL
\* followed by the keys of its raw collection, and no resolved fragment's raw
\* collection has the main entry's URL as a key.
C16_IgnoreListAndNoShellKey ==
    (pc \in {"awaitFragment", "done"} \/ (pc = "failed" /\ fragIdx >= 1)) =>
        /\ ignoreUrls = IgnoreList(<<absoluteShellUrl(config)>>
                                       \o ObjKeys(ShellCollection(config, files)))
        /\ \A i \in 1..ResolvedFragments :
              ~ObjHas(ObjGet(pushManifest, absoluteFragmentUrl(config, i)),
                      absoluteShellUrl(config))

C16_Witness ==
    /\ pc = "done"
    /\ config.shell = Under(ShellHtml)
    /\ config.fragments = <<Under(Frag1Html)>>
    /\ \E i \in 1..Len(files[Frag1Html].contents.imports) :
          files[Frag1Html].contents.imports[i].url = ShellHtml
    /\ KeySet(ObjGet(pushManifest, Frag1Html)) = {XDat, AJs}

\* C17: the file map starts empty, never loses a key, and changes only in
\* the read loop, before any analyzer call.
C17_FileMapFrozen ==
    /\ files = <<>>
    /\ [][ /\ DOMAIN files \subseteq DOMAIN files'
           /\ files' # files => (pc = "reading" /\ pc' = "reading" /\ calls' = <<>>)
         ]_vars

C17_Witness ==
    /\ pc = "done"
    /\ Len(arrived) = 3
    /\ Cardinality(DOMAIN files) = 2
    /\ Len(calls) = 2

C19_FailureKeepsPassThrough ==
    /\ [](pc = "failed" => (inputDone /\ out = arrived))
    /\ [][IsPrefix(out, out')]_vars

C19_Witness ==
    /\ pc = "failed"
    /\ Len(arrived) = 3
    /\ out = arrived
    /\ fragIdx = 2
    /\ Len(pushManifest) = 2

\* No later key of obj normalizes as the key at position i.
IsLastLike(base, obj, i) ==
    \A n \in (i + 1)..Len(obj) :
        normalize(base, obj[n].key) # normalize(base, obj[i].key)

====
